---- MODULE Spec2Model ----
(***************************************************************************)
(* The video validation and upload pipeline of the backend:                *)
(*   api/validation.py   get_specs, get_error, validate_video              *)
(*   core/video.py       VideoService.process_and_store                    *)
(*   core/firebase.py    FirebaseService.store_video                       *)
(* Each upload request is one asyncio task.  An action of the model is the *)
(* code a task runs between two suspension points (await file.read(),      *)
(* await asyncio.sleep(1)); everything between them runs atomically on the *)
(* event loop.                                                             *)
(***************************************************************************)
EXTENDS Integers, Sequences, FiniteSets, TLC

(***************************************************************************)
(* Optional[T]: None is the empty sequence, a present value a singleton.   *)
(***************************************************************************)
None == <<>>
Some(x) == <<x>>

(***************************************************************************)
(* LIMITS (api/validation.py).  MIN_FPS is the decimal 29.97, kept as the  *)
(* rational MIN_FPS_NUM / MIN_FPS_DEN.                                      *)
(***************************************************************************)
MAX_SIZE == 6 * 1024 * 1024
WIDTH == 720
HEIGHT == 1280
MIN_FPS_NUM == 2997
MIN_FPS_DEN == 100
MIN_FPS_TEXT == "29.97"
MAX_FPS == 30
MAX_DURATION == 60

(***************************************************************************)
(* ValidationError enum values.                                            *)
(***************************************************************************)
INVALID_FORMAT == "Invalid video format"
NO_VIDEO_STREAM == "No video stream found"
FILE_TOO_LARGE == "File too large"
INVALID_RESOLUTION == "Invalid resolution"
INVALID_FPS == "Invalid frame rate"
VIDEO_TOO_LONG == "Video too long"
INVALID_COLOR_SPACE == "Invalid color space"
INVALID_MIME == "Invalid file type"
SYSTEM_ERROR == "System error"

(***************************************************************************)
(* Exceptions: a class name and the args tuple.  str(e) of an exception    *)
(* with one argument is that argument, with none the empty string.         *)
(***************************************************************************)
Exc(cls, args) == [cls |-> cls, args |-> args]
IsValueError(e) == e.cls = "ValueError"
StrExc(e) == IF Len(e.args) = 0 THEN "" ELSE e.args[1]

Return(v) == [ok |-> TRUE, val |-> v]
Raise(e) == [ok |-> FALSE, exc |-> e]

(***************************************************************************)
(* Text of the low-level errors the libraries raise.                       *)
(***************************************************************************)
FloatErrText == "could not convert string to float: 'N/A'"
SniffErrText == "[Errno 5] Input/output error"
StatErrText == "[Errno 13] Permission denied"

(***************************************************************************)
(* str.lower() and str.startswith('video/') on the strings of the model.   *)
(***************************************************************************)
Lower(s) == IF s = "BT709" THEN "bt709" ELSE s
StartsWithVideo(mime) == mime \in {"video/mp4", "video/quicktime"}

(***************************************************************************)
(* Formatting of numbers in f-strings.  A float prints as its quotient     *)
(* with a decimal point (three decimals kept here); a whole-second         *)
(* duration prints as "<n>.0".                                              *)
(***************************************************************************)
Pad3(n) == IF n < 10 THEN "00" \o ToString(n)
           ELSE IF n < 100 THEN "0" \o ToString(n) ELSE ToString(n)
FloatStr(num, den) ==
    ToString(num \div den) \o "." \o Pad3(((num * 1000) \div den) % 1000)

(***************************************************************************)
(* One part of r_frame_rate.split('/'): numeric text or not.               *)
(***************************************************************************)
Num(n) == [isnum |-> TRUE, val |-> n]
NotNum == [isnum |-> FALSE, val |-> 0]

(***************************************************************************)
(* get_specs(path): p is what ffmpeg.probe does on the file: it raises     *)
(* p.tool_exc (p.tool_ok = FALSE) or returns a report.  A ValueError is    *)
(* re-raised as it is, any other exception as ValueError(INVALID_FORMAT).  *)
(***************************************************************************)
VideoSpecs_RoundFps(p) ==
    [width |-> p.width, height |-> p.height,
     fps |-> [num |-> (2 * p.r_frame_rate[1].val + p.r_frame_rate[2].val)
                         \div (2 * p.r_frame_rate[2].val),
              den |-> 1],
     duration |-> p.duration,
     colorSpace |-> IF p.color_space = None THEN "unknown" ELSE p.color_space[1],
     codec |-> p.codec_name,
     size |-> p.size]

VideoSpecs(p) ==
    [width |-> p.width, height |-> p.height,
     fps |-> [num |-> p.r_frame_rate[1].val, den |-> p.r_frame_rate[2].val],
     duration |-> p.duration,
     colorSpace |-> IF p.color_space = None THEN "unknown" ELSE p.color_space[1],
     codec |-> p.codec_name,
     size |-> p.size]

get_specs(p) ==
    IF ~p.tool_ok
    THEN IF IsValueError(p.tool_exc) THEN Raise(p.tool_exc)
         ELSE Raise(Exc("ValueError", <<INVALID_FORMAT>>))
    ELSE IF ~p.has_video THEN Raise(Exc("ValueError", <<NO_VIDEO_STREAM>>))
    ELSE IF ~p.r_frame_rate[1].isnum
         THEN Raise(Exc("ValueError", <<FloatErrText>>))
    ELSE IF Len(p.r_frame_rate) < 2
         THEN Raise(Exc("ValueError", <<INVALID_FORMAT>>))
    ELSE IF ~p.r_frame_rate[2].isnum
         THEN Raise(Exc("ValueError", <<FloatErrText>>))
    ELSE IF p.r_frame_rate[2].val = 0
         THEN Raise(Exc("ValueError", <<INVALID_FORMAT>>))
    ELSE Return(VideoSpecs(p))

(***************************************************************************)
(* ValidationResult                                                        *)
(***************************************************************************)
ValidationResult(valid, error, specs, suggestions) ==
    [valid |-> valid, error |-> error, specs |-> specs,
     suggestions |-> suggestions]

ResolutionBad_Both(specs) == specs.width # WIDTH /\ specs.height # HEIGHT

ResolutionBad(specs) == specs.width # WIDTH \/ specs.height # HEIGHT

FpsBad_Le(specs) ==
    \/ specs.fps.num * MIN_FPS_DEN <= MIN_FPS_NUM * specs.fps.den
    \/ specs.fps.num > MAX_FPS * specs.fps.den

FpsBad(specs) ==
    \/ specs.fps.num * MIN_FPS_DEN < MIN_FPS_NUM * specs.fps.den
    \/ specs.fps.num > MAX_FPS * specs.fps.den
DurationBad(specs) == specs.duration > MAX_DURATION
ColorSpaceBad(specs) == Lower(specs.colorSpace) # "bt709"

(***************************************************************************)
(* The ValidationResult of each failing check of get_error.                *)
(***************************************************************************)
ResolutionError(specs) ==
    ValidationResult(FALSE,
        Some(INVALID_RESOLUTION \o ": " \o ToString(specs.width) \o "x"
             \o ToString(specs.height)),
        Some(specs),
        << "Video must be exactly " \o ToString(WIDTH) \o "x" \o ToString(HEIGHT),
           "Use a video editor to resize the video",
           "Most phones can record in this resolution natively" >>)

FpsError(specs) ==
    ValidationResult(FALSE,
        Some(INVALID_FPS \o ": " \o FloatStr(specs.fps.num, specs.fps.den)),
        Some(specs),
        << "Frame rate must be between " \o MIN_FPS_TEXT \o " and "
              \o ToString(MAX_FPS) \o " FPS",
           "Try recording at 30 FPS",
           "Convert using a video editor" >>)

DurationError(specs) ==
    ValidationResult(FALSE,
        Some(VIDEO_TOO_LONG \o ": " \o ToString(specs.duration) \o ".0s"),
        Some(specs),
        << "Video must be under " \o ToString(MAX_DURATION) \o " seconds",
           "Trim your video to be shorter",
           "Split long videos into multiple parts" >>)

ColorSpaceError_NoSpecs(specs) ==
    ValidationResult(FALSE,
        Some(INVALID_COLOR_SPACE \o ": " \o specs.colorSpace),
        None,
        << "Video must use BT.709 color space",
           "Most modern phones record in this format",
           "Try converting with a video editor" >>)

ColorSpaceError(specs) ==
    ValidationResult(FALSE,
        Some(INVALID_COLOR_SPACE \o ": " \o specs.colorSpace),
        Some(specs),
        << "Video must use BT.709 color space",
           "Most modern phones record in this format",
           "Try converting with a video editor" >>)

get_error_FpsFirst(specs) ==
    IF FpsBad(specs) THEN Some(FpsError(specs))
    ELSE IF ResolutionBad(specs) THEN Some(ResolutionError(specs))
    ELSE IF DurationBad(specs) THEN Some(DurationError(specs))
    ELSE IF ColorSpaceBad(specs) THEN Some(ColorSpaceError(specs))
    ELSE None

(***************************************************************************)
(* get_error(specs): None when the specs conform, else the result of the   *)
(* first failing check.                                                    *)
(***************************************************************************)
get_error(specs) ==
    IF ResolutionBad(specs) THEN Some(ResolutionError(specs))
    ELSE IF FpsBad(specs) THEN Some(FpsError(specs))
    ELSE IF DurationBad(specs) THEN Some(DurationError(specs))
    ELSE IF ColorSpaceBad(specs) THEN Some(ColorSpaceError(specs))
    ELSE None

(***************************************************************************)
(* except Exception as e, of validate_video: the message is e.args[0] for  *)
(* a ValueError (IndexError when args is empty) and str(e) otherwise.      *)
(***************************************************************************)
SystemSuggestions ==
    << "Ensure the video file is not corrupted",
       "Try re-recording or converting the video",
       "Check if your device supports the required format" >>

validate_except(e) ==
    IF IsValueError(e) /\ Len(e.args) = 0
    THEN Raise(Exc("IndexError", <<"tuple index out of range">>))
    ELSE Return(ValidationResult(FALSE,
                    Some(IF IsValueError(e) THEN e.args[1] ELSE StrExc(e)),
                    None, SystemSuggestions))

(***************************************************************************)
(* stats.st_size > LIMITS['MAX_SIZE']                                      *)
(***************************************************************************)
TooLarge_Ge(f) == f.size >= MAX_SIZE

TooLarge(f) == f.size > MAX_SIZE

(***************************************************************************)
(* validate_video(path) on a file f = [mime_ok, mime, stat_ok, size,       *)
(* probe]: what magic.from_file, os.stat and ffmpeg.probe do on it.        *)
(* out is the returned ValidationResult (or the exception that escapes),   *)
(* calls the library calls made, in order.                                 *)
(***************************************************************************)
validate_video(f) ==
    IF ~f.mime_ok THEN
        [out |-> validate_except(Exc("OSError", <<SniffErrText>>)),
         calls |-> <<"magic.from_file">>]
    ELSE IF ~StartsWithVideo(f.mime) THEN
        [out |-> Return(ValidationResult(FALSE,
                     Some(INVALID_MIME \o ": " \o f.mime), None,
                     <<"Only video files are accepted">>)),
         calls |-> <<"magic.from_file">>]
    ELSE IF ~f.stat_ok THEN
        [out |-> validate_except(Exc("OSError", <<StatErrText>>)),
         calls |-> <<"magic.from_file", "os.stat">>]
    ELSE IF TooLarge(f) THEN
        [out |-> Return(ValidationResult(FALSE, Some(FILE_TOO_LARGE), None,
                     << "File must be under "
                           \o ToString(MAX_SIZE \div (1024 * 1024)) \o "MB",
                        "Try compressing the video",
                        "Use a lower quality setting when recording" >>)),
         calls |-> <<"magic.from_file", "os.stat">>]
    ELSE
        LET got == get_specs(f.probe)
            calls == <<"magic.from_file", "os.stat", "ffmpeg.probe">>
        IN  IF ~got.ok THEN [out |-> validate_except(got.exc), calls |-> calls]
            ELSE LET error_result == get_error(got.val)
                 IN  IF error_result # None
                     THEN [out |-> Return(error_result[1]), calls |-> calls]
                     ELSE [out |-> Return(ValidationResult(TRUE, None,
                                              Some(got.val), None)),
                           calls |-> calls]

(***************************************************************************)
(* Bounds of the model.                                                    *)
(***************************************************************************)
MaxRetryCfg == 3      \* largest configured max_retry_attempts
MaxStoreFails == 3    \* most failures the store injects before it accepts

Reqs == {1, 2}        \* calls of process_and_store; the second one runs
                      \* only where two calls are in flight together

(***************************************************************************)
(* The uploads a client can send.                                          *)
(***************************************************************************)
Rates ==
    { <<Num(30000), Num(1001)>>, <<Num(30), Num(1)>>, <<Num(25), Num(1)>>,
      <<Num(0), Num(0)>>, <<NotNum>> }
Resolutions == { <<WIDTH, HEIGHT>>, <<HEIGHT, WIDTH>>, <<1920, 1080>> }
Durations == { MAX_DURATION, MAX_DURATION + 1 }
ColorSpaces == { Some("bt709"), Some("BT709"), None }

ProbeError == Exc("ffmpeg.Error", <<"ffprobe error (see stderr output for detail)">>)
Report(res, rate, dur, cs) ==
    [tool_ok |-> TRUE, tool_exc |-> ProbeError, has_video |-> TRUE,
     width |-> res[1], height |-> res[2],
     r_frame_rate |-> rate, duration |-> dur, color_space |-> cs,
     codec_name |-> Some("h264"), size |-> 1000000]
GoodReport == Report(<<WIDTH, HEIGHT>>, <<Num(30000), Num(1001)>>, 30, Some("bt709"))
ProbeOutcomes ==
    { Report(res, rate, dur, cs) :
        res \in Resolutions, rate \in Rates, dur \in Durations, cs \in ColorSpaces }
    \cup { GoodReport,
           [GoodReport EXCEPT !.tool_ok = FALSE],
           [GoodReport EXCEPT !.tool_ok = FALSE,
                              !.tool_exc = Exc("ValueError", <<>>)],
           [GoodReport EXCEPT !.has_video = FALSE] }

Sniffs ==
    { [mime_ok |-> TRUE, mime |-> "video/mp4"],
      [mime_ok |-> TRUE, mime |-> "application/octet-stream"],
      [mime_ok |-> FALSE, mime |-> ""] }
Stats ==
    { [stat_ok |-> TRUE, size |-> MAX_SIZE],
      [stat_ok |-> TRUE, size |-> MAX_SIZE + 1],
      [stat_ok |-> FALSE, size |-> 0] }
Files ==
    { [mime_ok |-> sn.mime_ok, mime |-> sn.mime, stat_ok |-> st.stat_ok,
       size |-> st.size, probe |-> p] :
        sn \in Sniffs, st \in Stats, p \in ProbeOutcomes }

Filenames == {"clip.mp4", "srv.mp4"}
ServerFiles == {"srv.mp4"}          \* files in the server's working directory
ContentTypes == {"video/mp4"}

Uploads ==
    [file : Files,
     filename : {None} \cup {Some(n) : n \in Filenames},
     content_type : {None} \cup {Some(c) : c \in ContentTypes},
     store_fails : 0..MaxStoreFails]

TempName(r) == "/tmp/tmp" \o ToString(r)
BlobName(filename) == "videos/" \o filename
BlobNames == { BlobName(n) : n \in Filenames }
PublicUrl(name) == "https://storage.googleapis.com/tiktoken-videos/" \o name

(***************************************************************************)
(* State.                                                                  *)
(*   max_retry_attempts  FirebaseSettings.max_retry_attempts               *)
(*   upload[r]   the UploadFile of request r and the behaviour of the      *)
(*               store for it (store_fails failing attempts, then success) *)
(*   task[r]     the locals of process_and_store / store_video of r, its   *)
(*               position pc, its outcome and the calls it has made (log)  *)
(*   fs          the paths that exist on the server's disk                 *)
(*   blobs       the bucket: for each blob name the path whose bytes it    *)
(*               holds, or "none"                                          *)
(*   http[r]     the frame of upload_video around request r: pc is "off"   *)
(*               when process_and_store is called directly, "waiting"      *)
(*               before the handler runs, "processing" while it awaits     *)
(*               process_and_store, "responded" with the response sent     *)
(*   videos      the "videos" table: for each id its record, or None       *)
(*   status      for each id the outcome of get_video_status once called   *)
(***************************************************************************)
VARIABLES max_retry_attempts, upload, task, fs, blobs, http, videos, status

vars == <<max_retry_attempts, upload, task, fs, blobs, http, videos, status>>

ProcessingResult(success, url, error, specs) ==
    [success |-> success, url |-> url, error |-> error, specs |-> specs]

NewTask ==
    [pc |-> "idle", temp_path |-> None, validation |-> None, attempt |-> 0,
     result |-> None, raised |-> None, log |-> <<>>]

(***************************************************************************)
(* upload_video, the POST /upload handler.  A response is its status code  *)
(* and the fields of the UploadResponse or ErrorResponse body.             *)
(***************************************************************************)
Response(code, error, url, specs, suggestions) ==
    [status |-> code, error |-> error, url |-> url, specs |-> specs,
     suggestions |-> suggestions]
Responded(resp) == [pc |-> "responded", response |-> Some(resp)]
NoHttp == [r \in Reqs |-> [pc |-> "off", response |-> None]]

(***************************************************************************)
(* except Exception, of upload_video.                                      *)
(***************************************************************************)
UploadFailed ==
    Response(500, Some("Upload failed"), None, None,
             Some(<< "Try uploading again",
                     "Check your network connection",
                     "Contact support if the problem persists" >>))

(***************************************************************************)
(* if not file.content_type.startswith('video/')                           *)
(***************************************************************************)
ContentTypeRejected_Never(content_type) == FALSE

ContentTypeRejected(content_type) == ~StartsWithVideo(content_type)

InvalidFileType(content_type) ==
    Response(400, Some("Invalid file type: " \o content_type), None, None,
             Some(<<"Only video files are accepted">>))

(***************************************************************************)
(* upload_video once process_and_store is over with the task t: an         *)
(* exception that is an Exception gives the 500; a result without success  *)
(* the 400 with result.error and result.specs; a success the               *)
(* UploadResponse, whose url has to be a string.  A CancelledError is not  *)
(* an Exception: it leaves the handler and nothing is sent.                *)
(***************************************************************************)
upload_video_after(t) ==
    IF t.raised # None
    THEN IF t.raised[1].cls = "CancelledError"
         THEN [pc |-> "cancelled", response |-> None]
         ELSE Responded(UploadFailed)
    ELSE LET result == t.result[1]
         IN  IF ~result.success
             THEN Responded(Response(400, result.error, None, result.specs,
                      Some(<< "Check video requirements",
                              "Try a different video",
                              "Ensure video is in portrait mode" >>)))
             ELSE IF result.url = None \/ result.specs = None
             THEN Responded(UploadFailed)
             ELSE Responded(Response(200, None, result.url, result.specs, None))

(***************************************************************************)
(* The status endpoint has no call in flight and no record to serve.       *)
(***************************************************************************)
VideoIds == {"v1", "v2"}
NoVideos == [id \in VideoIds |-> None]
NoStatus == [id \in VideoIds |-> None]

(***************************************************************************)
(* One call: request 1 carries the upload u, request 2 is never made.      *)
(***************************************************************************)
NoUpload ==
    [file |-> [mime_ok |-> TRUE, mime |-> "video/mp4", stat_ok |-> TRUE,
               size |-> MAX_SIZE, probe |-> GoodReport],
     filename |-> None, content_type |-> None, store_fails |-> 0]
OneUpload(u) == [r \in Reqs |-> IF r = 1 THEN u ELSE NoUpload]
OneTask == [r \in Reqs |-> IF r = 1 THEN NewTask ELSE [NewTask EXCEPT !.pc = "off"]]

Init ==
    /\ max_retry_attempts \in 0..MaxRetryCfg
    /\ \E u \in Uploads : upload = OneUpload(u)
    /\ task = OneTask
    /\ fs = ServerFiles
    /\ blobs = [b \in BlobNames |-> "none"]
    /\ http = NoHttp
    /\ videos = NoVideos
    /\ status = NoStatus

Count(log, ev) == Cardinality({i \in 1..Len(log) : log[i] = ev})
StoreFailures(log) ==
    Cardinality({i \in 1..Len(log) :
        log[i] \in {"upload:error", "upload:timeout", "make_public:error"}})

Logged(t, evs) == [t EXCEPT !.log = @ \o evs]

(***************************************************************************)
(* except Exception as e, of process_and_store.                            *)
(***************************************************************************)
Failed_Reraise(t, e) == [t EXCEPT !.raised = Some(e)]

Failed(t, e) ==
    [t EXCEPT !.result = Some(ProcessingResult(FALSE, None,
                             Some("Processing failed: " \o StrExc(e)), None))]

(***************************************************************************)
(* finally, of process_and_store, and the return to the caller: the temp   *)
(* file is unlinked when temp_path is set and the path exists; an error of *)
(* os.unlink is swallowed.  t carries the result, fs1 and blobs1 the disk  *)
(* and the bucket as the try block left them.                              *)
(***************************************************************************)
Finally_UnlinkMasks(r, t, fs1, blobs1) ==
    /\ blobs' = blobs1
    /\ IF t.temp_path # None /\ t.temp_path[1] \in fs1
       THEN \E unlink_ok \in BOOLEAN :
              /\ fs' = IF unlink_ok THEN fs1 \ {t.temp_path[1]} ELSE fs1
              /\ task' = [task EXCEPT ![r] =
                            [Logged(IF unlink_ok THEN t
                                    ELSE Failed(t, Exc("OSError",
                                             <<"[Errno 13] Permission denied">>)),
                                    <<IF unlink_ok THEN "os.unlink"
                                      ELSE "os.unlink:error">>)
                               EXCEPT !.pc = "done"]]
       ELSE /\ fs' = fs1
            /\ task' = [task EXCEPT ![r] = [t EXCEPT !.pc = "done"]]
    /\ http' = IF http[r].pc = "processing"
               THEN [http EXCEPT ![r] = upload_video_after(t)]
               ELSE http
    /\ UNCHANGED <<max_retry_attempts, upload, videos, status>>

Finally(r, t, fs1, blobs1) ==
    /\ blobs' = blobs1
    /\ IF t.temp_path # None /\ t.temp_path[1] \in fs1
       THEN \E unlink_ok \in BOOLEAN :
              /\ fs' = IF unlink_ok THEN fs1 \ {t.temp_path[1]} ELSE fs1
              /\ task' = [task EXCEPT ![r] =
                            [Logged(t, <<IF unlink_ok THEN "os.unlink"
                                         ELSE "os.unlink:error">>)
                               EXCEPT !.pc = "done"]]
       ELSE /\ fs' = fs1
            /\ task' = [task EXCEPT ![r] = [t EXCEPT !.pc = "done"]]
    /\ http' = IF http[r].pc = "processing"
               THEN [http EXCEPT ![r] = upload_video_after(t)]
               ELSE http
    /\ UNCHANGED <<max_retry_attempts, upload, videos, status>>

(***************************************************************************)
(* await asyncio.sleep(1) of store_video: the task is suspended before the *)
(* next iteration of the loop.                                             *)
(***************************************************************************)
Sleep_Cleanup(r, t, fs1, blobs1) ==
    /\ task' = [task EXCEPT ![r] =
                  [Logged(t, <<"os.unlink", "sleep">>) EXCEPT !.pc = "backoff",
                                                              !.attempt = @ + 1]]
    /\ fs' = fs1 \ {TempName(r)}
    /\ blobs' = blobs1
    /\ UNCHANGED <<max_retry_attempts, upload, http, videos, status>>

Sleep(r, t, fs1, blobs1) ==
    /\ task' = [task EXCEPT ![r] =
                  [Logged(t, <<"sleep">>) EXCEPT !.pc = "backoff",
                                                 !.attempt = @ + 1]]
    /\ fs' = fs1
    /\ blobs' = blobs1
    /\ UNCHANGED <<max_retry_attempts, upload, http, videos, status>>

LastAttempt_Early(t) == t.attempt = max_retry_attempts - 2

LastAttempt(t) == t.attempt = max_retry_attempts - 1

(***************************************************************************)
(* except asyncio.TimeoutError, of store_video.                            *)
(***************************************************************************)
OnTimeout(r, t, fs1, blobs1) ==
    IF LastAttempt(t)
    THEN Finally(r, Failed(t, Exc("StorageError",
                                  <<"Upload timeout after retries">>)),
                 fs1, blobs1)
    ELSE Sleep(r, t, fs1, blobs1)

(***************************************************************************)
(* except Exception as e, of store_video: on the last attempt blob.delete  *)
(* is tried (its error swallowed) and StorageError raised.                 *)
(***************************************************************************)
OnException(r, t, e, name, fs1, blobs1) ==
    IF LastAttempt(t)
    THEN \E delete_ok \in (IF blobs1[name] = "none" THEN {FALSE} ELSE BOOLEAN) :
            Finally(r,
                    Failed(Logged(t, <<IF delete_ok THEN "blob.delete"
                                       ELSE "blob.delete:error">>),
                           Exc("StorageError",
                               <<"Failed to store video: " \o StrExc(e)>>)),
                    fs1,
                    IF delete_ok THEN [blobs1 EXCEPT ![name] = "none"] ELSE blobs1)
    ELSE Sleep(r, t, fs1, blobs1)

(***************************************************************************)
(* One iteration of the loop of store_video, for the ProcessedVideo of r:  *)
(* open(video.file_path), blob.upload_from_file, blob.make_public.  The    *)
(* store fails the first upload[r].store_fails attempts that reach it: the *)
(* upload raises an exception or TimeoutError, or the blob is written and  *)
(* make_public raises.                                                     *)
(***************************************************************************)
Attempt(r, t0, fs1, blobs1) ==
    LET path == upload[r].filename[1]
        name == BlobName(path)
        t == Logged(t0, <<"attempt">>)
    IN  IF path \notin fs1
        THEN OnException(r, Logged(t, <<"open:error">>),
                 Exc("FileNotFoundError",
                     <<"[Errno 2] No such file or directory: '" \o path \o "'">>),
                 name, fs1, blobs1)
        ELSE IF StoreFailures(t.log) < upload[r].store_fails
        THEN \/ OnException(r, Logged(t, <<"upload:error">>),
                    Exc("Exception", <<"Upload failed">>), name, fs1, blobs1)
             \/ OnTimeout(r, Logged(t, <<"upload:timeout">>), fs1, blobs1)
             \/ OnException(r, Logged(t, <<"upload", "make_public:error">>),
                    Exc("Forbidden", <<"403 POST acl">>), name, fs1,
                    [blobs1 EXCEPT ![name] = path])
        ELSE Finally(r,
                 [Logged(t, <<"upload", "make_public">>) EXCEPT
                     !.result = Some(ProcessingResult(TRUE,
                                    Some(PublicUrl(name)), None,
                                    t.validation[1].specs))],
                 fs1, [blobs1 EXCEPT ![name] = path])

(***************************************************************************)
(* for attempt in range(max_retry_attempts): ... of store_video, entered   *)
(* at iteration t.attempt.  When the range is exhausted store_video falls  *)
(* off its end and returns None, which process_and_store takes as the url. *)
(***************************************************************************)
StoreLoop(r, t, fs1, blobs1) ==
    IF t.attempt < max_retry_attempts
    THEN Attempt(r, t, fs1, blobs1)
    ELSE Finally(r,
             [t EXCEPT !.result = Some(ProcessingResult(TRUE, None, None,
                                           t.validation[1].specs))],
             fs1, blobs1)

(***************************************************************************)
(* ProcessedVideo(file_path=file.filename, content_type=file.content_type, *)
(* ...): both fields are required strings; pydantic rejects None.          *)
(***************************************************************************)
ProcessedVideoOk(u) == u.filename # None /\ u.content_type # None
PydanticErrText == "1 validation error for ProcessedVideo"

(***************************************************************************)
(* process_and_store after a valid verdict: get_firebase(), the            *)
(* ProcessedVideo, and store_video up to its first suspension.             *)
(***************************************************************************)
StoreValid(r, t, fs1, blobs1) ==
    \/ Finally(r, Failed(Logged(t, <<"get_firebase:error">>),
                         Exc("FileNotFoundError",
                             <<"[Errno 2] No such file or directory: 'firebase-credentials.json'">>)),
               fs1, blobs1)
    \/ IF ~ProcessedVideoOk(upload[r])
       THEN Finally(r, Failed(Logged(t, <<"get_firebase", "ProcessedVideo:error">>),
                              Exc("ValidationError", <<PydanticErrText>>)),
                    fs1, blobs1)
       ELSE StoreLoop(r, Logged(t, <<"get_firebase", "ProcessedVideo", "store_video">>),
                      fs1, blobs1)

(***************************************************************************)
(* if not validation.valid                                                 *)
(***************************************************************************)
NotValid_Never(validation) == FALSE

NotValid(validation) == ~validation.valid

(***************************************************************************)
(* process_and_store from validate_video(temp_path) on.                    *)
(***************************************************************************)
Validate(r, t0, fs1, blobs1) ==
    LET v == validate_video(upload[r].file)
        t == Logged(t0, <<"validate_video">> \o v.calls)
    IN  IF ~v.out.ok
        THEN Finally(r, Failed(Logged(t, <<"validate_video:error">>), v.out.exc),
                     fs1, blobs1)
        ELSE IF NotValid(v.out.val)
        THEN Finally(r,
                 [t EXCEPT !.validation = Some(v.out.val),
                           !.result = Some(ProcessingResult(FALSE, None,
                                          v.out.val.error, v.out.val.specs))],
                 fs1, blobs1)
        ELSE StoreValid(r, [t EXCEPT !.validation = Some(v.out.val)], fs1, blobs1)

(***************************************************************************)
(* Actions.                                                                *)
(*                                                                         *)
(* Begin: process_and_store is called; NamedTemporaryFile(delete=False)    *)
(* creates the temp file and the task suspends in await file.read().       *)
(***************************************************************************)
Begin(r) ==
    /\ task[r].pc = "idle"
    /\ fs' = fs \cup {TempName(r)}
    /\ task' = [task EXCEPT ![r] =
                  [Logged(@, <<"NamedTemporaryFile">>) EXCEPT !.pc = "reading"]]
    /\ UNCHANGED <<max_retry_attempts, upload, blobs, http, videos, status>>

(***************************************************************************)
(* ReadDone: file.read() completes.  If it or temp_file.write raises, the  *)
(* with block closes the file and temp_path is still None.  Otherwise      *)
(* temp_path is set and the task runs on to its next suspension or to its  *)
(* return.                                                                 *)
(***************************************************************************)
ReadDone(r) ==
    /\ task[r].pc = "reading"
    /\ \/ Finally(r, Failed(Logged(task[r], <<"file.read:error">>),
                            Exc("OSError", <<"[Errno 5] Input/output error">>)),
                  fs, blobs)
       \/ Finally(r, Failed(Logged(task[r], <<"file.read", "temp_file.write:error">>),
                            Exc("OSError", <<"[Errno 28] No space left on device">>)),
                  fs, blobs)
       \/ Validate(r, [Logged(task[r], <<"file.read", "temp_file.write">>)
                         EXCEPT !.temp_path = Some(TempName(r))],
                   fs, blobs)

(***************************************************************************)
(* Resume: asyncio.sleep(1) is over; the loop of store_video goes on.      *)
(***************************************************************************)
Resume(r) ==
    /\ task[r].pc = "backoff"
    /\ StoreLoop(r, task[r], fs, blobs)

Next == \E r \in Reqs : Begin(r) \/ ReadDone(r) \/ Resume(r)

(***************************************************************************)
(* Cancel: the task of request r is cancelled while it is suspended, in    *)
(* await file.read() or in await asyncio.sleep(1) of store_video.          *)
(* CancelledError is raised at the await; it is a BaseException, so        *)
(* neither except Exception of store_video nor that of process_and_store   *)
(* catches it: the finally block runs and the error leaves the call.       *)
(***************************************************************************)
Cancel(r) ==
    /\ task[r].pc \in {"reading", "backoff"}
    /\ Finally(r,
               [Logged(task[r], <<"cancelled">>)
                  EXCEPT !.raised = Some(Exc("CancelledError", <<>>))],
               fs, blobs)

NextCancel == \E r \in Reqs : Begin(r) \/ ReadDone(r) \/ Resume(r) \/ Cancel(r)

SpecCancel == Init /\ [][NextCancel]_vars

(***************************************************************************)
(* Upload: upload_video runs from the arrival of the request to its first  *)
(* suspension.  A content type of None has no startswith: the              *)
(* AttributeError is caught by except Exception.  A content type that does *)
(* not start with "video/" is answered at once.  Otherwise                 *)
(* process_and_store is called and runs up to await file.read().           *)
(***************************************************************************)
Upload(r) ==
    /\ http[r].pc = "waiting"
    /\ IF upload[r].content_type = None
       THEN /\ http' = [http EXCEPT ![r] = Responded(UploadFailed)]
            /\ UNCHANGED <<max_retry_attempts, upload, task, fs, blobs,
                           videos, status>>
       ELSE IF ContentTypeRejected(upload[r].content_type[1])
       THEN /\ http' = [http EXCEPT ![r] =
                          Responded(InvalidFileType(upload[r].content_type[1]))]
            /\ UNCHANGED <<max_retry_attempts, upload, task, fs, blobs,
                           videos, status>>
       ELSE /\ http' = [http EXCEPT ![r].pc = "processing"]
            /\ task[r].pc = "idle"
            /\ fs' = fs \cup {TempName(r)}
            /\ task' = [task EXCEPT ![r] =
                          [Logged(@, <<"NamedTemporaryFile">>)
                             EXCEPT !.pc = "reading"]]
            /\ UNCHANGED <<max_retry_attempts, upload, blobs, videos, status>>

(***************************************************************************)
(* Requests that come through POST /upload, one at a time.                 *)
(***************************************************************************)
ContentTypesHttp ==
    {"video/mp4", "video/quicktime", "text/plain", "image/png",
     "application/octet-stream", "Video/mp4"}
FilesHttp ==
    { f \in Files :
        /\ f.stat_ok /\ f.size = MAX_SIZE
        /\ f.mime_ok
        /\ \/ f.probe \in { GoodReport,
                             [GoodReport EXCEPT !.tool_ok = FALSE],
                             [GoodReport EXCEPT !.tool_ok = FALSE,
                                                !.tool_exc = Exc("ValueError", <<>>)],
                             Report(<<1920, 1080>>, <<Num(30), Num(1)>>,
                                    MAX_DURATION, Some("bt709")) } }
UploadsHttp ==
    [file : FilesHttp,
     filename : {None} \cup {Some(n) : n \in Filenames},
     content_type : {None} \cup {Some(c) : c \in ContentTypesHttp},
     store_fails : 0..MaxStoreFails]

InitHttp ==
    /\ max_retry_attempts \in 0..MaxRetryCfg
    /\ \E u \in UploadsHttp : upload = OneUpload(u)
    /\ task = OneTask
    /\ fs = ServerFiles
    /\ blobs = [b \in BlobNames |-> "none"]
    /\ http = [r \in Reqs |-> [pc |-> IF r = 1 THEN "waiting" ELSE "off",
                                response |-> None]]
    /\ videos = NoVideos
    /\ status = NoStatus

NextHttp == \E r \in Reqs : Upload(r) \/ ReadDone(r) \/ Resume(r)

SpecHttp == InitHttp /\ [][NextHttp]_vars

Spec == Init /\ [][Next]_vars

(***************************************************************************)
(* The validator alone: one call of process_and_store with the configured  *)
(* default of max_retry_attempts, a store that accepts at once, and files  *)
(* that pass the sniff and the size check with probe reports around the    *)
(* limits of the policy.                                                   *)
(***************************************************************************)
RatesV ==
    Rates \cup { <<Num(29969), Num(1000)>>, <<Num(2997), Num(100)>>,
                 <<Num(30001), Num(1000)>>, <<Num(60), Num(1)>> }
ResolutionsV ==
    Resolutions \cup { <<WIDTH, HEIGHT + 1>>, <<WIDTH + 1, HEIGHT>>,
                       <<WIDTH - 1, HEIGHT>>, <<2 * WIDTH, 2 * HEIGHT>> }
FilesV ==
    { [mime_ok |-> TRUE, mime |-> "video/mp4", stat_ok |-> TRUE,
       size |-> MAX_SIZE, probe |-> Report(res, rate, dur, cs)] :
        res \in ResolutionsV, rate \in RatesV, dur \in Durations,
        cs \in ColorSpaces }

InitV ==
    /\ max_retry_attempts = MaxRetryCfg
    /\ \E f \in FilesV :
          upload = OneUpload([file |-> f, filename |-> Some("srv.mp4"),
                              content_type |-> Some("video/mp4"),
                              store_fails |-> 0])
    /\ task = OneTask
    /\ fs = ServerFiles
    /\ blobs = [b \in BlobNames |-> "none"]
    /\ http = NoHttp
    /\ videos = NoVideos
    /\ status = NoStatus

NextV == \E r \in Reqs : Begin(r) \/ ReadDone(r)

SpecV == InitV /\ [][NextV]_vars

(***************************************************************************)
(* get_video_status, the GET /videos/{video_id}/status handler.            *)
(*                                                                         *)
(* A row of the "videos" table, as far as the VideoMetadata model and the  *)
(* handler read it: url stands for the required fields (None: the field is *)
(* missing and pydantic rejects the row), state may be a ProcessingState   *)
(* or not.                                                                 *)
(***************************************************************************)
ProcessingStates == {"pending", "processing", "completed", "failed"}
Rows ==
    [state : ProcessingStates \cup {"archived"},
     error : {None, Some(""), Some("Invalid resolution: 1920x1080")},
     progress : {None, Some(50)},
     url : {None, Some("https://storage.googleapis.com/tiktoken-videos/videos/srv.mp4")}]
VideoMetadataOk(row) == row.url # None /\ row.state \in ProcessingStates

(***************************************************************************)
(* What the handler gives back: a StatusResponse (code 200) or an          *)
(* HTTPException with its status code and the error and suggestions of its *)
(* detail.                                                                 *)
(***************************************************************************)
StatusResponse(state, progress, error, suggestions) ==
    [code |-> 200, state |-> Some(state), progress |-> progress,
     error |-> error, suggestions |-> suggestions]
HTTPException(code, error, suggestions) ==
    [code |-> code, state |-> None, progress |-> None,
     error |-> Some(error), suggestions |-> Some(suggestions)]
NotFound ==
    HTTPException(404, "Video not found",
                  <<"Check the video ID", "The video may have been deleted">>)
StatusFailed ==
    HTTPException(500, "Failed to get video status",
                  <<"Try again later", "The service may be experiencing issues">>)

(***************************************************************************)
(* The except clauses of get_video_status: an HTTPException raised in the  *)
(* try block is re-raised as it is, anything else becomes the 500.         *)
(***************************************************************************)
status_except_CatchAll(raised) == StatusFailed

status_except(raised) ==
    IF raised.cls = "HTTPException" THEN raised.args[1] ELSE StatusFailed

(***************************************************************************)
(* if video.state == ProcessingState.FAILED                                *)
(***************************************************************************)
IsFailed_Completed(state) == state = "completed"

IsFailed(state) == state = "failed"

(***************************************************************************)
(* get_video_status on the outcome of the lookup                           *)
(* of the row of video_id in the "videos" table (select, eq, single): it  *)
(* raised, or returned the row, or returned nothing for an unknown id.     *)
(***************************************************************************)
get_video_status(lookup) ==
    IF ~lookup.ok THEN status_except(lookup.exc)
    ELSE IF lookup.val = None
    THEN status_except(Exc("HTTPException", <<NotFound>>))
    ELSE LET row == lookup.val[1]
         IN  IF ~VideoMetadataOk(row)
             THEN status_except(Exc("ValidationError",
                                    <<"1 validation error for VideoMetadata">>))
             ELSE IF IsFailed(row.state)
             THEN StatusResponse(row.state, row.progress, row.error,
                      Some(<< "Try uploading the video again",
                              "Check if the video meets requirements",
                              "The video may be corrupted" >>))
             ELSE StatusResponse(row.state, row.progress, None, None)

(***************************************************************************)
(* GetStatus: one request for the status of id, from its arrival to its    *)
(* response; the lookup reads the table or fails.                          *)
(***************************************************************************)
GetStatus(id) ==
    /\ status[id] = None
    /\ \E lookup \in {Return(videos[id]),
                       Raise(Exc("APIError", <<"connection refused">>))} :
          status' = [status EXCEPT ![id] =
                       Some([lookup_ok |-> lookup.ok,
                             response |-> get_video_status(lookup)])]
    /\ UNCHANGED <<max_retry_attempts, upload, task, fs, blobs, http, videos>>

InitStatus ==
    /\ max_retry_attempts = MaxRetryCfg
    /\ upload = [r \in Reqs |-> NoUpload]
    /\ task = [r \in Reqs |-> [NewTask EXCEPT !.pc = "off"]]
    /\ fs = ServerFiles
    /\ blobs = [b \in BlobNames |-> "none"]
    /\ http = NoHttp
    /\ videos \in [VideoIds -> {None} \cup {Some(row) : row \in Rows}]
    /\ status = NoStatus

NextStatus == \E id \in VideoIds : GetStatus(id)

SpecStatus == InitStatus /\ [][NextStatus]_vars

(***************************************************************************)
(* Two calls of process_and_store in flight together on one event loop,    *)
(* as asyncio.gather makes them: conforming files, each client file name   *)
(* present in the server's working directory, and a store that fails each  *)
(* call its own number of times.  The steps of the two calls interleave at *)
(* their suspension points.                                                *)
(***************************************************************************)
UploadsConc ==
    [file : {NoUpload.file},
     filename : {Some(n) : n \in Filenames},
     content_type : {Some(c) : c \in ContentTypes},
     store_fails : 0..MaxStoreFails]

InitConc ==
    /\ max_retry_attempts \in 0..MaxRetryCfg
    /\ upload \in [Reqs -> UploadsConc]
    /\ task = [r \in Reqs |-> NewTask]
    /\ fs = Filenames
    /\ blobs = [b \in BlobNames |-> "none"]
    /\ http = NoHttp
    /\ videos = NoVideos
    /\ status = NoStatus

SpecConc == InitConc /\ [][Next]_vars

(***************************************************************************)
(* Properties.                                                             *)
(***************************************************************************)
Has(log, ev) == \E i \in 1..Len(log) : log[i] = ev
Done(r) == task[r].pc = "done"
Returned(r) == Done(r) /\ task[r].result # None
Res(r) == task[r].result[1]
Verdict(r) == task[r].validation[1]
Validated(r) == task[r].validation # None
File(r) == upload[r].file

\* C1: when the verdict of validate_video is invalid, store_video is never
\* called (and nothing is uploaded), and the ProcessingResult returned has
\* success = false, url = None and the verdict's error.
C1_InvalidNeverStored ==
    \A r \in Reqs :
        (Validated(r) /\ ~Verdict(r).valid) =>
            /\ ~Has(task[r].log, "store_video")
            /\ ~Has(task[r].log, "attempt")
            /\ ~Has(task[r].log, "upload")
            /\ Done(r) =>
                 /\ task[r].raised = None
                 /\ task[r].result # None
                 /\ Res(r).success = FALSE
                 /\ Res(r).url = None
                 /\ Res(r).error = Verdict(r).error

C1_Witness ==
    \E r \in Reqs :
        /\ Done(r) /\ Validated(r) /\ ~Verdict(r).valid
        /\ Verdict(r).specs # None
        /\ upload[r].filename = Some("srv.mp4")
        /\ Res(r).error = Some("Invalid resolution: 1920x1080")

\* C2: once process_and_store has returned, the temp file it created does
\* not exist, whatever happened in between (os.unlink itself failing aside).
C2_TempFileGone ==
    \A r \in Reqs :
        (Done(r) /\ ~Has(task[r].log, "os.unlink:error")) => TempName(r) \notin fs

\* C3: every ProcessingResult returned has success = true exactly when its
\* url is set and its error is not.
C3_SuccessIffUrl ==
    \A r \in Reqs :
        Returned(r) =>
            (Res(r).success <=> (Res(r).url # None /\ Res(r).error = None))

(***************************************************************************)
(* The calls of a finished request that raised inside the try block, and   *)
(* the text str(e) of what each raises.                                    *)
(***************************************************************************)
StoreExhausted(r) ==
    /\ Done(r)
    /\ max_retry_attempts > 0
    /\ Count(task[r].log, "attempt") = max_retry_attempts
    /\ ~Has(task[r].log, "make_public")

StorageErrorTexts ==
    {"Upload timeout after retries",
     "Failed to store video: Upload failed",
     "Failed to store video: 403 POST acl"}
    \cup {"Failed to store video: [Errno 2] No such file or directory: '"
            \o n \o "'" : n \in Filenames}

CauseTexts(r) ==
    IF Has(task[r].log, "file.read:error")
    THEN {"[Errno 5] Input/output error"}
    ELSE IF Has(task[r].log, "temp_file.write:error")
    THEN {"[Errno 28] No space left on device"}
    ELSE IF Has(task[r].log, "validate_video:error")
    THEN {"tuple index out of range"}
    ELSE IF Has(task[r].log, "get_firebase:error")
    THEN {"[Errno 2] No such file or directory: 'firebase-credentials.json'"}
    ELSE IF Has(task[r].log, "ProcessedVideo:error")
    THEN {"1 validation error for ProcessedVideo"}
    ELSE IF StoreExhausted(r) THEN StorageErrorTexts
    ELSE {}

\* C4: no exception escapes process_and_store; an exception raised while
\* saving the upload, validating, building the storage record or storing is
\* returned as
\* ProcessingResult(success = false, error = "Processing failed: <cause>").
C4_NoExceptionEscapes ==
    \A r \in Reqs :
        /\ task[r].raised = None
        /\ Done(r) => task[r].result # None
        /\ (Done(r) /\ CauseTexts(r) # {}) =>
              /\ Res(r).success = FALSE
              /\ Res(r).url = None
              /\ Res(r).specs = None
              /\ \E c \in CauseTexts(r) :
                    Res(r).error = Some("Processing failed: " \o c)

C4_Witness ==
    \E r \in Reqs :
        /\ Done(r) /\ StoreExhausted(r)
        /\ Has(task[r].log, "upload:error")
        /\ Res(r).error = Some("Processing failed: Failed to store video: Upload failed")

\* C5: an upload whose bytes pass validation, sent as a well-formed
\* UploadFile to a store that accepts uploads, is answered success = true
\* with a url and the probed specs (720x1280), whatever its filename.
WellFormedAccepted(r) ==
    /\ Done(r)
    /\ validate_video(File(r)).out.ok
    /\ validate_video(File(r)).out.val.valid
    /\ upload[r].filename # None
    /\ upload[r].content_type # None
    /\ upload[r].store_fails = 0
    /\ max_retry_attempts >= 1
    /\ ~Has(task[r].log, "file.read:error")
    /\ ~Has(task[r].log, "temp_file.write:error")
    /\ ~Has(task[r].log, "get_firebase:error")

C5_ValidUploadSucceeds ==
    \A r \in Reqs :
        WellFormedAccepted(r) =>
            /\ task[r].result # None
            /\ Res(r).success
            /\ Res(r).url # None
            /\ Res(r).specs # None
            /\ Res(r).specs[1].width = 720
            /\ Res(r).specs[1].height = 1280

(***************************************************************************)
(* The rules of the policy, read off the probe report p of a file.         *)
(***************************************************************************)
ProbeFails(p) ==
    \/ ~p.tool_ok
    \/ ~p.has_video
    \/ Len(p.r_frame_rate) # 2
    \/ \E i \in 1..Len(p.r_frame_rate) : ~p.r_frame_rate[i].isnum
    \/ p.r_frame_rate[2].val = 0
WrongResolution(p) == ~(p.width = 720 /\ p.height = 1280)
WrongFps(p) ==
    ~(/\ 2997 * p.r_frame_rate[2].val <= 100 * p.r_frame_rate[1].val
      /\ p.r_frame_rate[1].val <= 30 * p.r_frame_rate[2].val)
TooLong(p) == ~(p.duration <= 60)
WrongColorSpace(p) == p.color_space \notin {Some("bt709"), Some("BT709")}

\* C6: the checks run in the order MIME sniff, size, probe, resolution,
\* frame rate, duration, colour space; the verdict is that of the first
\* check the file violates, and a check that comes later is not even made.
C6_FirstFailingCheckWins ==
    \A r \in Reqs :
        (Validated(r) /\ File(r).mime_ok) =>
            LET f == File(r)
                p == File(r).probe
                v == Verdict(r)
                log == task[r].log
            IN  IF f.mime # "video/mp4"
                THEN /\ v.error = Some("Invalid file type: " \o f.mime)
                     /\ ~Has(log, "os.stat") /\ ~Has(log, "ffmpeg.probe")
                ELSE IF ~f.stat_ok THEN ~Has(log, "ffmpeg.probe")
                ELSE IF f.size > 6291456
                THEN /\ v.error = Some("File too large")
                     /\ ~Has(log, "ffmpeg.probe")
                ELSE IF ProbeFails(p)
                THEN /\ v.error \in {Some("Invalid video format"),
                                     Some("No video stream found"),
                                     Some(FloatErrText)}
                     /\ ~v.valid
                ELSE IF WrongResolution(p)
                THEN v.error = Some("Invalid resolution: " \o ToString(p.width)
                                    \o "x" \o ToString(p.height))
                ELSE IF WrongFps(p)
                THEN v.error = Some("Invalid frame rate: "
                                    \o FloatStr(p.r_frame_rate[1].val,
                                                p.r_frame_rate[2].val))
                ELSE IF TooLong(p)
                THEN v.error = Some("Video too long: " \o ToString(p.duration)
                                    \o ".0s")
                ELSE IF WrongColorSpace(p)
                THEN v.error = Some("Invalid color space: " \o v.specs[1].colorSpace)
                ELSE v.valid /\ v.error = None

C6_Witness ==
    \E r \in Reqs :
        /\ Validated(r) /\ File(r).mime_ok /\ File(r).mime = "video/mp4"
        /\ File(r).stat_ok /\ File(r).size <= 6291456
        /\ ~ProbeFails(File(r).probe)
        /\ WrongResolution(File(r).probe) /\ WrongFps(File(r).probe)
        /\ TooLong(File(r).probe) /\ WrongColorSpace(File(r).probe)
        /\ Verdict(r).error = Some("Invalid resolution: 1280x720")

\* C7: a file sniffed as video/* of more than 6,291,456 bytes is rejected
\* as "File too large" and ffmpeg.probe is never called on it; a file of
\* exactly 6,291,456 bytes passes the size check and is probed.
C7_SizeCheckBeforeProbe ==
    \A r \in Reqs :
        (Validated(r) /\ File(r).mime_ok /\ File(r).mime = "video/mp4"
                      /\ File(r).stat_ok) =>
            /\ File(r).size > 6291456 =>
                 /\ ~Verdict(r).valid
                 /\ Verdict(r).error = Some("File too large")
                 /\ ~Has(task[r].log, "ffmpeg.probe")
            /\ File(r).size = 6291456 =>
                 /\ Verdict(r).error # Some("File too large")
                 /\ Has(task[r].log, "ffmpeg.probe")

C7_Witness ==
    \E r \in Reqs :
        /\ Done(r) /\ Validated(r) /\ File(r).size = 6291457
        /\ Verdict(r).error = Some("File too large")
        /\ ~ProbeFails(File(r).probe) /\ ~WrongResolution(File(r).probe)

\* C8: an invalid verdict carries specs exactly when the probe succeeded
\* and a policy check (resolution, frame rate, duration, colour space)
\* failed; a verdict for a wrong MIME, an oversized file, a failed probe or
\* an exception carries none.
PolicyCheckFailed(r) ==
    /\ Has(task[r].log, "ffmpeg.probe")
    /\ ~ProbeFails(File(r).probe)
    /\ \/ WrongResolution(File(r).probe) \/ WrongFps(File(r).probe)
       \/ TooLong(File(r).probe) \/ WrongColorSpace(File(r).probe)

C8_SpecsIffPolicyFailure ==
    \A r \in Reqs :
        (Validated(r) /\ ~Verdict(r).valid) =>
            (Verdict(r).specs # None <=> PolicyCheckFailed(r))

C8_Witness ==
    \E r \in Reqs :
        /\ Validated(r) /\ ~Verdict(r).valid
        /\ PolicyCheckFailed(r)
        /\ ~WrongResolution(File(r).probe) /\ ~WrongFps(File(r).probe)
        /\ ~TooLong(File(r).probe)
        /\ Verdict(r).specs = Some(VideoSpecs(File(r).probe))

\* C9: store_video makes at most max_retry_attempts attempts, one after
\* another with a sleep between two consecutive ones, and stops at the first
\* attempt that succeeds, returning the blob's public url: k < N failures
\* followed by a success are k + 1 attempts and a success for the caller.
C9_BoundedSequentialRetries ==
    \A r \in Reqs :
        LET log == task[r].log
            attempts == Count(log, "attempt")
        IN  /\ attempts <= max_retry_attempts
            /\ \A i \in 1..Len(log) :
                  /\ log[i] = "attempt" =>
                        /\ i > 1
                        /\ log[i - 1] \in {"store_video", "sleep"}
                        /\ log[i - 1] = "store_video" <=>
                              ~Has(SubSeq(log, 1, i - 1), "attempt")
                  /\ log[i] = "sleep" =>
                        IF i = Len(log) THEN task[r].pc = "backoff"
                        ELSE log[i + 1] = "attempt"
                  /\ log[i] = "make_public" =>
                        /\ ~Has(SubSeq(log, i + 1, Len(log)), "attempt")
                        /\ Done(r)
                        /\ task[r].result # None
                        /\ Res(r).success
                        /\ Res(r).url =
                             Some("https://storage.googleapis.com/tiktoken-videos/videos/"
                                  \o upload[r].filename[1])
            /\ (/\ Done(r)
                /\ Has(log, "store_video")
                /\ upload[r].filename[1] \in fs
                /\ upload[r].store_fails < max_retry_attempts) =>
                   /\ attempts = upload[r].store_fails + 1
                   /\ Count(log, "sleep") = upload[r].store_fails
                   /\ task[r].result # None
                   /\ Res(r).success
                   /\ Res(r).url # None

C9_Witness ==
    \E r \in Reqs :
        /\ Done(r)
        /\ max_retry_attempts = 3
        /\ upload[r].store_fails = 2
        /\ Count(task[r].log, "attempt") = 3
        /\ Has(task[r].log, "upload:error")
        /\ Has(task[r].log, "upload:timeout")
        /\ Res(r).success
        /\ blobs["videos/srv.mp4"] # "none"

\* C10: when every configured attempt of store_video has failed, by an
\* exception or by the timeout, blob.delete has been tried before the
\* StorageError, and process_and_store reports a failure made of it.
C10_ExhaustionDeletesThenFails ==
    \A r \in Reqs :
        StoreExhausted(r) =>
            /\ \/ Has(task[r].log, "blob.delete")
               \/ Has(task[r].log, "blob.delete:error")
            /\ task[r].result # None
            /\ Res(r).success = FALSE
            /\ \E c \in StorageErrorTexts :
                  Res(r).error = Some("Processing failed: " \o c)

\* C11: validate_video never raises: whenever process_and_store has called
\* it, whatever magic.from_file, os.stat or ffmpeg.probe raised (any class,
\* any args), a ValidationResult came back, with valid = false when one of
\* them failed.
C11_ValidateNeverRaises ==
    \A r \in Reqs :
        /\ ~Has(task[r].log, "validate_video:error")
        /\ (Done(r) /\ Has(task[r].log, "validate_video")) =>
              /\ Validated(r)
              /\ (\/ ~File(r).mime_ok
                  \/ ~File(r).stat_ok
                  \/ ~File(r).probe.tool_ok) => ~Verdict(r).valid

(***************************************************************************)
(* A finished request whose file reached the policy checks: sniff, size    *)
(* and probe passed and the report parsed.                                 *)
(***************************************************************************)
Checked(r) == Done(r) /\ Validated(r) /\ ~ProbeFails(File(r).probe)
Rate(r) == <<File(r).probe.r_frame_rate[1].val, File(r).probe.r_frame_rate[2].val>>
IsInvalidFps(r) ==
    /\ ~Verdict(r).valid
    /\ Verdict(r).error =
          Some("Invalid frame rate: " \o FloatStr(Rate(r)[1], Rate(r)[2]))

\* C12: the frame-rate check accepts fps exactly when 29.97 <= fps <= 30,
\* both ends included: on a 720x1280 file the verdict is InvalidFps exactly
\* when fps is outside; 29.969 and 30.001 give InvalidFps, 29.97 and 30.0
\* pass (and are valid when duration and colour space are in policy).
C12_FpsRangeInclusive ==
    \A r \in Reqs :
        (Checked(r) /\ ~WrongResolution(File(r).probe)) =>
            /\ IsInvalidFps(r) <=>
                  ~(/\ 2997 * Rate(r)[2] <= 100 * Rate(r)[1]
                    /\ Rate(r)[1] <= 30 * Rate(r)[2])
            /\ Rate(r) \in {<<29969, 1000>>, <<30001, 1000>>} => IsInvalidFps(r)
            /\ Rate(r) \in {<<2997, 100>>, <<30, 1>>} =>
                  /\ ~IsInvalidFps(r)
                  /\ (~TooLong(File(r).probe) /\ ~WrongColorSpace(File(r).probe))
                        => Verdict(r).valid

C12_Witness ==
    \E r \in Reqs :
        /\ Checked(r)
        /\ Rate(r) = <<2997, 100>>
        /\ Verdict(r).valid
        /\ Verdict(r).specs[1].fps = [num |-> 2997, den |-> 100]

\* C13: the resolution check accepts 720x1280 and nothing else: every other
\* pair, 1920x1080 and the swapped 1280x720 included, gives
\* InvalidResolution with the measured specs attached.
C13_ResolutionExact ==
    \A r \in Reqs :
        Checked(r) =>
            LET p == File(r).probe
                rejected ==
                    /\ ~Verdict(r).valid
                    /\ Verdict(r).error =
                          Some("Invalid resolution: " \o ToString(p.width)
                               \o "x" \o ToString(p.height))
                    /\ Verdict(r).specs # None
                    /\ Verdict(r).specs[1].width = p.width
                    /\ Verdict(r).specs[1].height = p.height
            IN  /\ rejected <=> ~(p.width = 720 /\ p.height = 1280)
                /\ <<p.width, p.height>> \in {<<1920, 1080>>, <<1280, 720>>}
                      => rejected

C13_Witness ==
    \E r \in Reqs :
        /\ Checked(r)
        /\ File(r).probe.width = 1280 /\ File(r).probe.height = 720
        /\ Verdict(r).error = Some("Invalid resolution: 1280x720")
        /\ Verdict(r).specs # None

(***************************************************************************)
(* The response of upload_video to request r, once sent.                   *)
(***************************************************************************)
Answered(r) == http[r].pc = "responded"
Resp(r) == http[r].response[1]
Invoked(r) == task[r].log # <<>>

\* C14: a request whose declared content type does not start with "video/"
\* is answered 400 with an error and suggestions, and process_and_store is
\* never invoked for it, neither before nor after the answer.
C14_NonVideoRejectedBeforePipeline ==
    \A r \in Reqs :
        (/\ http[r].pc # "off"
         /\ upload[r].content_type # None
         /\ upload[r].content_type[1] \notin {"video/mp4", "video/quicktime"}) =>
            /\ ~Invoked(r)
            /\ http[r].pc \in {"waiting", "responded"}
            /\ Answered(r) =>
                  /\ Resp(r).status = 400
                  /\ Resp(r).error =
                        Some("Invalid file type: " \o upload[r].content_type[1])
                  /\ Resp(r).suggestions = Some(<<"Only video files are accepted">>)
                  /\ Resp(r).url = None

C14_Witness ==
    \E r \in Reqs :
        /\ Answered(r)
        /\ upload[r].content_type = Some("text/plain")
        /\ Resp(r).status = 400
        /\ ~Invoked(r)

(***************************************************************************)
(* What happened to a request that passed the content-type gate.           *)
(***************************************************************************)
ValidationFailed(r) == Validated(r) /\ ~Verdict(r).valid
Stored(r) == Has(task[r].log, "make_public")

\* C15: the status of an answered upload tells validation failures from
\* internal ones: 200 with url and specs exactly when validation and
\* storage both succeeded, 400 with error and suggestions exactly when
\* validation failed, and 500 "Upload failed" for every other failure, a
\* store that failed all its attempts included.
C15_StatusByOutcome ==
    \A r \in Reqs :
        (Answered(r) /\ Invoked(r)) =>
            /\ Resp(r).status = 200 <=>
                  (Validated(r) /\ Verdict(r).valid /\ Stored(r))
            /\ Resp(r).status = 200 =>
                  /\ Resp(r).url # None
                  /\ Resp(r).specs = Verdict(r).specs
            /\ Resp(r).status = 400 <=> ValidationFailed(r)
            /\ Resp(r).status = 400 =>
                  /\ Resp(r).error = Verdict(r).error
                  /\ Resp(r).specs = Verdict(r).specs
                  /\ Resp(r).suggestions # None
            /\ (~ValidationFailed(r) /\ Resp(r).status # 200) =>
                  /\ Resp(r).status = 500
                  /\ Resp(r).error = Some("Upload failed")
                  /\ Resp(r).suggestions # None

(***************************************************************************)
(* The blob a successful call of process_and_store returned the URL of.    *)
(***************************************************************************)
Succeeded(r) == Done(r) /\ Returned(r) /\ Res(r).success /\ Res(r).url # None
OwnBlob(r) == BlobName(upload[r].filename[1])

\* C16: calls of process_and_store that run concurrently do not disturb
\* each other, the same client file name included: each works on its own
\* temp file, and a call that returned success with a URL has its blob in
\* the bucket at that URL, whatever the other call does before or after.
C16_ConcurrentUploadsIndependent ==
    /\ \A r1, r2 \in Reqs :
          (r1 # r2 /\ task[r1].temp_path # None) =>
              task[r1].temp_path # task[r2].temp_path
    /\ \A r \in Reqs :
          Succeeded(r) =>
              /\ Res(r).url = Some(PublicUrl(OwnBlob(r)))
              /\ blobs[OwnBlob(r)] = upload[r].filename[1]

\* C17: when a process_and_store request is cancelled at a suspension
\* point, while reading the upload stream or in the backoff sleep of the
\* store call, its temp file is deleted all the same (os.unlink itself
\* failing aside).
C17_CancelStillCleansUp ==
    \A r \in Reqs :
        (/\ Done(r)
         /\ Has(task[r].log, "cancelled")
         /\ ~Has(task[r].log, "os.unlink:error")) => TempName(r) \notin fs

(***************************************************************************)
(* The answer of get_video_status for id, and the row it was made from.    *)
(***************************************************************************)
Asked(id) == status[id] # None
Reply(id) == status[id][1].response
Looked(id) == Asked(id) /\ status[id][1].lookup_ok
Row(id) == videos[id][1]
FailedSuggestions ==
    << "Try uploading the video again",
       "Check if the video meets requirements",
       "The video may be corrupted" >>

\* C19: for a record the lookup returned, get_video_status answers with
\* the record's state; it attaches the record's error and the fixed three
\* suggestions exactly when that state is FAILED, whatever the error
\* string, and for PENDING, PROCESSING and COMPLETED it attaches neither
\* error nor suggestions, even when the record holds an error.
C19_ErrorOnlyWhenFailed ==
    \A id \in VideoIds :
        (/\ Looked(id)
         /\ videos[id] # None
         /\ Row(id).url # None
         /\ Row(id).state \in {"pending", "processing", "completed", "failed"}) =>
            /\ Reply(id).code = 200
            /\ Reply(id).state = Some(Row(id).state)
            /\ Reply(id).suggestions # None <=> Row(id).state = "failed"
            /\ Row(id).state = "failed" =>
                  /\ Reply(id).error = Row(id).error
                  /\ Reply(id).suggestions = Some(FailedSuggestions)
                  /\ Len(Reply(id).suggestions[1]) = 3
            /\ Row(id).state # "failed" =>
                  /\ Reply(id).error = None
                  /\ Reply(id).suggestions = None

C19_Witness ==
    \E id \in VideoIds :
        /\ Looked(id)
        /\ videos[id] # None
        /\ Row(id).state = "failed"
        /\ Row(id).error = Some("Invalid resolution: 1920x1080")
        /\ Reply(id).code = 200
        /\ Reply(id).error = Some("Invalid resolution: 1920x1080")

\* C20: for an id with no record, get_video_status fails with NotFound:
\* 404 with error and suggestions, never the generic 500; the 404 raised
\* inside the try block passes the catch-all unchanged.
C20_MissingRecordIs404 ==
    \A id \in VideoIds :
        (Looked(id) /\ videos[id] = None) =>
            /\ Reply(id).code = 404
            /\ Reply(id).error = Some("Video not found")
            /\ Reply(id).suggestions =
                  Some(<<"Check the video ID", "The video may have been deleted">>)

C20_Witness ==
    \E id \in VideoIds :
        /\ Looked(id)
        /\ videos[id] = None
        /\ Reply(id).code = 404

(***************************************************************************)
(* The texts str(e) of the exceptions the libraries and the store raise,   *)
(* and the forms in which one of them could show in a response.            *)
(***************************************************************************)
RawExceptionTexts ==
    {SniffErrText, StatErrText, FloatErrText, PydanticErrText,
     "ffprobe error (see stderr output for detail)",
     "tuple index out of range",
     "[Errno 5] Input/output error",
     "[Errno 28] No space left on device",
     "[Errno 2] No such file or directory: 'firebase-credentials.json'"}
    \cup StorageErrorTexts
LeakedTexts ==
    RawExceptionTexts \cup {"Processing failed: " \o x : x \in RawExceptionTexts}

\* C21: no response of the upload endpoint carries raw exception text: on
\* every failure path the error sent to the client is a fixed or
\* policy-derived message, and every failure response has suggestions.
C21_NoRawExceptionText ==
    \A r \in Reqs :
        (Answered(r) /\ Resp(r).status # 200) =>
            /\ Resp(r).error # None
            /\ Resp(r).error[1] \notin LeakedTexts
            /\ Resp(r).suggestions # None
            /\ Resp(r).suggestions[1] # <<>>

\* C22: an upload rejected for a policy violation of kind K is answered 400
\* with exactly the suggestion list the validator produced for K (for
\* InvalidResolution: "Video must be exactly 720x1280", "Use a video editor
\* to resize the video", "Most phones can record in this resolution
\* natively").
C22_ValidatorSuggestionsReachClient ==
    \A r \in Reqs :
        (Answered(r) /\ ValidationFailed(r) /\ PolicyCheckFailed(r)) =>
            /\ Resp(r).status = 400
            /\ Resp(r).error = Verdict(r).error
            /\ Resp(r).suggestions = Some(Verdict(r).suggestions)
            /\ WrongResolution(File(r).probe) =>
                  Resp(r).suggestions =
                      Some(<< "Video must be exactly 720x1280",
                              "Use a video editor to resize the video",
                              "Most phones can record in this resolution natively" >>)

\* C23: within one process_and_store call the steps are sequential and
\* happen at most once each: the one temp file is written in full before
\* validation starts, store_video is called once, only after a valid
\* verdict, and the temp file is deleted only after validation and the
\* store call with all its retries are over.
C23_StepsSequentialOnce ==
    \A r \in Reqs :
        LET log == task[r].log
            Unlinks == {"os.unlink", "os.unlink:error"}
        IN  /\ \A ev \in {"NamedTemporaryFile", "temp_file.write",
                          "validate_video", "store_video"} : Count(log, ev) <= 1
            /\ Count(log, "os.unlink") + Count(log, "os.unlink:error") <= 1
            /\ Has(log, "ProcessedVideo") => Count(log, "store_video") = 1
            /\ \A i \in 1..Len(log) :
                  /\ log[i] = "validate_video" =>
                        /\ i > 2
                        /\ log[i - 1] = "temp_file.write"
                        /\ log[1] = "NamedTemporaryFile"
                        /\ TempName(r) \in fs \/ log[Len(log)] \in Unlinks
                  /\ log[i] = "store_video" =>
                        /\ Has(SubSeq(log, 1, i - 1), "validate_video")
                        /\ Validated(r)
                        /\ Verdict(r).valid
                  /\ log[i] \in Unlinks =>
                        /\ i = Len(log)
                        /\ Done(r)
                        /\ Has(log, "validate_video")

C23_Witness ==
    \E r \in Reqs :
        /\ Done(r)
        /\ Count(task[r].log, "store_video") = 1
        /\ Count(task[r].log, "attempt") = 2
        /\ Has(task[r].log, "sleep")
        /\ task[r].log[Len(task[r].log)] = "os.unlink"
        /\ Res(r).success

\* C24: get_specs fails with one of two errors only: NoVideoStream when
\* the report has no video stream, InvalidFormat for every other probing
\* failure (tool error, missing or malformed fields); validate_video turns
\* it into a verdict with that error, and the text of the low-level error
\* reaches neither the caller nor the verdict.
C24_ProbeFailuresNormalized ==
    \A r \in Reqs :
        (/\ Done(r)
         /\ Has(task[r].log, "ffmpeg.probe")
         /\ ProbeFails(File(r).probe)) =>
            /\ Validated(r)
            /\ ~Verdict(r).valid
            /\ Verdict(r).error =
                  IF File(r).probe.tool_ok /\ ~File(r).probe.has_video
                  THEN Some("No video stream found")
                  ELSE Some("Invalid video format")

(***************************************************************************)
(* The fps of the specs in the verdict of r, as a pair numerator,          *)
(* denominator; two such pairs are the same number when they agree         *)
(* crosswise.                                                              *)
(***************************************************************************)
SpecsFps(r) == <<Verdict(r).specs[1].fps.num, Verdict(r).specs[1].fps.den>>
SameNumber(x, y) == x[1] * y[2] = y[1] * x[2]

\* C25: get_specs takes fps from the rational string "a/b" as the quotient
\* a/b, not rounded to an integer: on a 720x1280 file with a >= 0 and
\* b > 0 the frame-rate check passes exactly when
\* 2997*b <= 100*a <= 3000*b; "30000/1001" and "30/1" pass as two
\* different rates, "25/1" and "60/1" fail.
C25_FpsIsExactQuotient ==
    \A r \in Reqs :
        (Checked(r) /\ ~WrongResolution(File(r).probe)) =>
            LET a == Rate(r)[1]
                b == Rate(r)[2]
                passes == ~(/\ ~Verdict(r).valid
                            /\ Verdict(r).suggestions[2] = "Try recording at 30 FPS")
            IN  /\ Verdict(r).specs # None
                /\ SameNumber(SpecsFps(r), <<a, b>>)
                /\ passes <=> (2997 * b <= 100 * a /\ 100 * a <= 3000 * b)
                /\ <<a, b>> \in {<<30000, 1001>>, <<30, 1>>} => passes
                /\ <<a, b>> \in {<<25, 1>>, <<60, 1>>} => ~passes
                /\ <<a, b>> = <<30000, 1001>> =>
                      ~SameNumber(SpecsFps(r), <<30, 1>>)

C25_Witness ==
    \E r \in Reqs :
        /\ Checked(r)
        /\ Rate(r) = <<30000, 1001>>
        /\ Verdict(r).valid
        /\ SpecsFps(r) = <<30000, 1001>>

\* C26: every invalid verdict of validate_video carries exactly 3
\* suggestions, fixed for its failure kind (InvalidMime, FileTooLarge,
\* InvalidFormat, NoVideoStream, InvalidResolution, InvalidFps,
\* VideoTooLong, InvalidColorSpace, SystemError).
C26_ThreeSuggestionsPerKind ==
    \A r \in Reqs :
        (Validated(r) /\ ~Verdict(r).valid) =>
            /\ Len(Verdict(r).suggestions) = 3
            /\ \A q \in Reqs :
                  (Validated(q) /\ Verdict(q).error = Verdict(r).error) =>
                      Verdict(q).suggestions = Verdict(r).suggestions

(***************************************************************************)
(* An exception that is not a typed validation failure was raised inside   *)
(* validate_video for the file of r: by the MIME sniff, or by os.stat.     *)
(***************************************************************************)
UntypedFailure(r) ==
    /\ Has(task[r].log, "validate_video")
    /\ \/ ~File(r).mime_ok
       \/ File(r).mime_ok /\ File(r).mime = "video/mp4" /\ ~File(r).stat_ok

\* C27: an exception inside validate_video that is not a typed validation
\* failure (an I/O error of os.stat or of the MIME sniff) gives a verdict of
\* kind SystemError, error "System error", with the generic recovery
\* suggestions; a typed failure keeps its kind.
C27_UntypedIsSystemError ==
    \A r \in Reqs :
        /\ (Done(r) /\ UntypedFailure(r)) =>
              /\ Validated(r)
              /\ ~Verdict(r).valid
              /\ Verdict(r).error = Some(SYSTEM_ERROR)
              /\ Verdict(r).suggestions = SystemSuggestions
        /\ (/\ Validated(r)
            /\ Has(task[r].log, "ffmpeg.probe")
            /\ File(r).probe.tool_ok /\ ~File(r).probe.has_video) =>
              Verdict(r).error = Some(NO_VIDEO_STREAM)

\* C28: store_video has two outcomes only, for every max_retry_attempts and
\* every failure: it returns a URL after a successful upload, or it raises
\* StorageError; it never returns without a URL and never raises anything
\* else.  process_and_store shows which: a success with that URL, or
\* "Processing failed: " and the StorageError's text.
C28_UrlOrStorageError ==
    \A r \in Reqs :
        (Done(r) /\ Has(task[r].log, "store_video")) =>
            /\ task[r].result # None
            /\ \/ /\ Stored(r)
                  /\ Res(r).success
                  /\ Res(r).url = Some(PublicUrl(OwnBlob(r)))
               \/ /\ ~Stored(r)
                  /\ ~Res(r).success
                  /\ \E c \in StorageErrorTexts :
                        Res(r).error = Some("Processing failed: " \o c)

\* C30: the bytes store_video uploads for an accepted upload are the bytes
\* validate_video inspected: the file it opens is the temp file that
\* process_and_store wrote and validated, not a path made from the client's
\* file name.
C30_StoredBytesAreValidated ==
    \A r \in Reqs :
        (Done(r) /\ Stored(r)) =>
            /\ task[r].temp_path # None
            /\ blobs[OwnBlob(r)] = task[r].temp_path[1]

(***************************************************************************)
(* Two finished calls that went the same way on the same upload up to the  *)
(* deletion of the temp file, which failed for r1 and succeeded for r2.    *)
(***************************************************************************)
Before(log) == SubSeq(log, 1, Len(log) - 1)
SameButUnlink(r1, r2) ==
    /\ Done(r1) /\ Done(r2)
    /\ upload[r1] = upload[r2]
    /\ task[r1].log # <<>> /\ task[r2].log # <<>>
    /\ task[r1].log[Len(task[r1].log)] = "os.unlink:error"
    /\ task[r2].log[Len(task[r2].log)] = "os.unlink"
    /\ Before(task[r1].log) = Before(task[r2].log)

\* C29: an error raised while deleting the temp file is swallowed:
\* process_and_store raises nothing and returns exactly the
\* ProcessingResult (success, url, error, specs) it returns when the
\* deletion succeeds.
C29_UnlinkErrorSwallowed ==
    /\ \A r \in Reqs :
          Has(task[r].log, "os.unlink:error") =>
              /\ Done(r)
              /\ task[r].raised = None
              /\ task[r].result # None
              /\ TempName(r) \in fs
    /\ \A r1, r2 \in Reqs :
          SameButUnlink(r1, r2) => task[r1].result = task[r2].result

C29_Witness ==
    \E r1, r2 \in Reqs :
        /\ SameButUnlink(r1, r2)
        /\ Res(r1).success
        /\ Res(r1).url # None
        /\ Res(r2) = Res(r1)

====
